---- MODULE Spec2Model ----
(***************************************************************************)
(* Model of harvest_toolgap.py: the job runner (cli), the dispatcher       *)
(* (process_job) and the vector-store lifecycle manager                    *)
(* (setup_file_search_vector_store / cleanup_vector_store).                *)
(*                                                                         *)
(* One action per remote call or runner step.  The remote API is the       *)
(* environment: every remote call either returns or raises, chosen with    *)
(* \E.  `calls` is the log of the calls the current job has issued, in     *)
(* order; `live_vs` is what this run has left on the remote side.           *)
(***************************************************************************)
EXTENDS Integers, Sequences, FiniteSets, TLC

(* ------------------------------ bounds -------------------------------- *)
\* longest job list the runner is given
MaxJobs == 2
\* most status checks one file job is allowed before the remote side must
\* answer with a terminal outcome (the code's loop has no such cap)
MaxPolls == 3

(* ------------------------- job descriptors ---------------------------- *)
\* a key the YAML entry does not have
Absent == "<absent>"
\* a value that is not text (a number, null, a list)
NonText == "<non-text>"
\* process_job never touches an id it was not given: Python's None
None == 0

Job(t, q, o, f) == [rec |-> TRUE, type |-> t, query |-> q, out |-> o, file_path |-> f]
\* a list entry that is not a mapping (a bare string, a number, null)
NotARecord == [rec |-> FALSE, type |-> Absent, query |-> Absent, out |-> Absent, file_path |-> Absent]

WebJob == Job("web", "q", "a.json", Absent)
FileJob == Job("file", "q", "b.json", "doc.pdf")
FileJobGone == Job("FILE", "q", "b.json", "gone.pdf")
FileJobNoPath == Job("file", "q", "b.json", Absent)
WebJobNoQuery == Job("web", Absent, "a.json", Absent)
WebJobNoOut == Job("Web", "q", Absent, Absent)
BogusTypeJob == Job("bogus", "q", "a.json", Absent)
NoTypeJob == Job(Absent, "q", "a.json", Absent)
NonTextTypeJob == Job(NonText, "q", "a.json", Absent)

JobPool ==
    { WebJob, FileJob, FileJobGone, FileJobNoPath, WebJobNoQuery,
      WebJobNoOut, BogusTypeJob, NoTypeJob, NonTextTypeJob, NotARecord }

JobLists == UNION { [1..n -> JobPool] : n \in 0..MaxJobs }

\* the local files that exist (path.exists())
ExistingPaths == {"doc.pdf"}
OutPaths == {"a.json", "b.json"}

(* ----------------------------- config -------------------------------- *)
\* times are counted in quarter seconds, the unit of DEFAULT_SLEEP
\* DEFAULT_SLEEP = 0.25 s
DEFAULT_SLEEP == 1
\* POLL_INTERVAL_S = 5 s
POLL_INTERVAL_S == 20

(* ---------------------------- exceptions ------------------------------ *)
NoExc == [cls |-> "none", msg |-> <<>>]
Exc(c, m) == [cls |-> c, msg |-> m]

\* the classes the remote client raises: two APIError subclasses (one
\* retryable, one not) and one error that is no APIError
RemoteErrors == {"RateLimitError", "BadRequestError", "TimeoutError"}

\* Python's class hierarchy, as far as the except clauses look at it
Parent(c) ==
    CASE c = "RateLimitError" -> "APIError"
      [] c = "BadRequestError" -> "APIError"
      [] c = "APIError" -> "Exception"
      [] c = "FileNotFoundError" -> "OSError"
      [] c = "TimeoutError" -> "OSError"
      [] c = "OSError" -> "Exception"
      [] c = "KeyError" -> "LookupError"
      [] c = "LookupError" -> "Exception"
      [] c = "ValueError" -> "Exception"
      [] c = "RuntimeError" -> "Exception"
      [] c = "AttributeError" -> "Exception"
      [] OTHER -> "BaseException"

RECURSIVE IsInstance(_, _)
IsInstance(c, base) ==
    IF c = base THEN TRUE
    ELSE IF c = "BaseException" THEN FALSE
    ELSE IsInstance(Parent(c), base)

(* ------------------------------ state --------------------------------- *)
VARIABLES
    jobs,             \* cli: the loaded job list
    i,                \* cli: index of the job the loop is at (enumerate from 1)
    pc,               \* where control is
    job_failures,     \* cli: the failure counter
    outcome,          \* per attempted job: "ok" or the except clause that caught it
    exc,              \* the exception in flight
    calls,            \* the calls the current job has issued, in order
    file_obj,         \* setup_file_search_vector_store: id of the uploaded file
    vector_store,     \* setup_file_search_vector_store: id of the created store
    vs_file,          \* setup_file_search_vector_store: the membership record last received
    check_error,      \* setup_file_search_vector_store: class of the error the latest
                      \* status check raised ("none" when it returned)
    vector_store_id,  \* process_job: the id setup returned (None until then)
    written,          \* how often each output path was written this run
    live_vs,          \* vector stores of this run that exist on the remote side
    delete_failed,    \* vector stores of this run whose delete call raised
    exit_status       \* process exit status; -1 while the process runs

\* 02_extract_clean.py, main
VARIABLES
    manifest_df,      \* the rows read from the manifest (line 82)
    skip_existing,    \* args.skip_existing (line 76)
    index,            \* the row the loop of line 97 is at (from 1)
    main_pc,          \* where main's control is; "idle" while the script is not run
    processed_count,  \* line 93
    skipped_count,    \* line 94
    error_count,      \* line 95
    output_files,     \* the file names present in args.output_dir
    rows_log          \* per row reached: what the loop body did with it

extractor == <<manifest_df, skip_existing, index, main_pc, processed_count, skipped_count,
               error_count, output_files, rows_log>>

\* the extraction script is not part of a harvester run
ExtractorIdle ==
    /\ manifest_df = <<>>
    /\ skip_existing = FALSE
    /\ index = 1
    /\ main_pc = "idle"
    /\ processed_count = 0
    /\ skipped_count = 0
    /\ error_count = 0
    /\ output_files = {}
    /\ rows_log = <<>>

vars == <<jobs, i, pc, job_failures, outcome, exc, calls, file_obj, vector_store, vs_file, check_error,
          vector_store_id, written, live_vs, delete_failed, exit_status, extractor>>

\* one entry of the call log: the operation, how it ended ("ok", "raise", or
\* the status a status check returned), the ids it was given or returned,
\* and for a sleep its length
Call(op, res, vs, file, secs) == [op |-> op, res |-> res, vs |-> vs, file |-> file, secs |-> secs]

RECURSIVE CountOp(_, _)
CountOp(log, op) ==
    IF log = <<>> THEN 0
    ELSE (IF Head(log).op = op THEN 1 ELSE 0) + CountOp(Tail(log), op)

job == jobs[i]

\* a status check's error detail when the remote attached none (last_error
\* is None)
NoDetail == "<no last_error>"
NoVsFile == [status |-> "none", last_error |-> NoDetail]

Init ==
    /\ jobs \in JobLists
    /\ i = 1
    /\ pc = "for"
    /\ job_failures = 0
    /\ outcome = <<>>
    /\ exc = NoExc
    /\ calls = <<>>
    /\ file_obj = None
    /\ vector_store = None
    /\ vs_file = NoVsFile
    /\ check_error = "none"
    /\ vector_store_id = None
    /\ written = [p \in OutPaths |-> 0]
    /\ live_vs = {}
    /\ delete_failed = {}
    /\ exit_status = -1
    /\ ExtractorIdle

(* ------------------------- remote environment ------------------------- *)
CallResults == {"ok"} \cup RemoteErrors
DeleteResults == {"ok", "raise"}
\* what a status check can answer: a status (with the error detail the
\* remote attaches to `failed`, possibly none), or an exception
PollAnswers ==
    { [status |-> s, last_error |-> NoDetail, raises |-> "none"] :
          s \in {"in_progress", "cancelled", "completed"} }
    \cup { [status |-> "failed", last_error |-> d, raises |-> "none"] :
          d \in {NoDetail, "bad format"} }
    \cup { [status |-> "none", last_error |-> NoDetail, raises |-> c] : c \in RemoteErrors }

\* a delete that raised may have left the object in place
AfterDelete(live, id, res) == IF res = "ok" THEN live \ {id} ELSE live
\* the stores whose delete call raised, after one more delete call
FailedDeletes(failed, id, res) == IF res = "raise" THEN failed \cup {id} ELSE failed

(* ----------------------------- helpers -------------------------------- *)
\* str.lower() on the type values the job pool uses
Lower(s) ==
    CASE s = "FILE" -> "file"
      [] s = "File" -> "file"
      [] s = "WEB" -> "web"
      [] s = "Web" -> "web"
      [] OTHER -> s

\* cli, lines 321-322: job.get(...) needs a mapping, .upper() needs text
\* (a missing `type` falls back to the text 'UNKNOWN')
HeaderRaises(j) == ~j.rec \/ j.type = NonText

\* cli, lines 325-336: the first except clause that matches
ExceptClause(c) ==
    IF IsInstance(c, "FileNotFoundError") THEN "input_file_not_found"
    ELSE IF IsInstance(c, "ValueError") THEN "configuration"
    ELSE IF IsInstance(c, "APIError") THEN "api"
    ELSE IF IsInstance(c, "Exception") THEN "unexpected"
    ELSE "uncaught"

\* mutant: every status but `failed` and `in_progress` ends the wait
PollDecisionLoose(status) ==
    IF status = "failed" THEN "raise"
    ELSE IF status = "in_progress" THEN "sleep"
    ELSE "break"

\* setup, lines 156-164: what the loop does with the status it was given
PollDecision(status) ==
    IF status = "completed" THEN "break"
    ELSE IF status = "failed" THEN "raise"
    ELSE "sleep"

\* mutant: the error text drops the remote's detail
FailureTextBare(last_error) == <<"File processing failed">>

\* setup, lines 160-161: the text of the processing-failure error
FailureText(last_error) ==
    <<"File processing failed: ", IF last_error # NoDetail THEN last_error ELSE "Unknown error">>

\* mutant: the polling loop retries nothing
PollExceptNoRetry(c) == "cleanup_raise"
\* setup, lines 166-177: which handler of the polling try takes a class
\* (every class the model raises there is an Exception)
PollExcept(c) ==
    IF IsInstance(c, "APIError") THEN "retry"
    ELSE "cleanup_raise"

\* mutant: the polling failure handler forgets the store
PollFailureDeletesFileOnly == <<"delete_file">>
\* setup, lines 173-176: the deletions the polling failure handler attempts
PollFailureDeletes == <<"delete_vs", "delete_file">>
\* mutant: the handler of a failed add forgets the store
AddFailureDeletesFileOnly == <<"delete_file">>
\* setup, lines 141-144: the deletions the add-file failure handler attempts
AddFailureDeletes == <<"delete_vs", "delete_file">>
\* setup, line 127: the deletion the create failure handler attempts
CreateFailureDeletes == <<"delete_file">>

\* mutant: the normal inter-poll sleep uses the backoff length
PollSleepSecsDoubled == POLL_INTERVAL_S * 2

\* setup, line 164: the sleep between two status checks
PollSleepSecs == POLL_INTERVAL_S
\* setup, line 169: the sleep after a status check raised an APIError
BackoffSecs == POLL_INTERVAL_S * 2

\* mutant: the existence check is skipped
PathExistsAlways(path) == TRUE

\* process_job, lines 235-236: path.exists()
PathExists(path) == path \in ExistingPaths

\* cli, lines 341-349: cli() returns whatever the counter holds, and the
\* script ends there, so the interpreter exits with status 0
ExitStatusOf(failures) == 0

\* mutant: the finally block deletes nothing
FinallyCleansNever(vsid) == FALSE
\* process_job, line 247: the finally block deletes only an id it was given
FinallyCleans(vsid) == vsid # None

\* mutant: a delete that raises ends the handler, the deletions after it
\* are not attempted
DeleteCallsStopAtRaise(which, dv, df) ==
    LET entry(k) == IF which[k] = "delete_vs" THEN Call("delete_vs", dv, vector_store, None, 0)
                    ELSE Call("delete_file", df, None, file_obj, 0)
        raised == {k \in 1..Len(which) : entry(k).res = "raise"}
        n == IF raised = {} THEN Len(which)
             ELSE CHOOSE k \in raised : \A m \in raised : k <= m
    IN  [k \in 1..n |-> entry(k)]
\* mutant: the finally block drops the exception in flight and process_job
\* goes on to its write
AfterFinallyFallsThrough(e) == "write"
\* process_job, lines 245-253: where control goes when the finally block is
\* over: on to the write, or out of process_job with the exception in flight
AfterFinally(e) == IF e = NoExc THEN "write" ELSE "raised"

\* mutant: an error of the store's deletion leaves cleanup_vector_store and
\* replaces what was in flight
AfterCleanupEscapes(e, dv) ==
    IF dv = "raise" THEN Exc("APIError", <<"vector_stores.delete">>) ELSE e
\* cleanup_vector_store, lines 183-188: the exception in flight once the
\* cleanup is over, given the one in flight before it (none on the success
\* path) and how the delete ended; its except clause swallows
AfterCleanup(e, dv) == e

\* the log entries of a handler's deletions, given how each delete ended:
\* each delete sits in a try of its own whose except swallows (lines
\* 127-128, 141-144, 173-176), so every one of them is attempted
DeleteCalls(which, dv, df) ==
    [k \in 1..Len(which) |->
        IF which[k] = "delete_vs" THEN Call("delete_vs", dv, vector_store, None, 0)
        ELSE Call("delete_file", df, None, file_obj, 0)]

Has(which, op) == \E k \in 1..Len(which) : which[k] = op

(* ------------------------------ cli ----------------------------------- *)
\* lines 319-322: next loop iteration, the header line is printed
JobHeader ==
    /\ pc = "for"
    /\ i <= Len(jobs)
    /\ IF HeaderRaises(job)
       THEN /\ pc' = "crashed"
            /\ exc' = Exc("AttributeError", <<"get/upper">>)
            /\ exit_status' = 1
       ELSE /\ pc' = "process_job"
            /\ UNCHANGED <<exc, exit_status>>
    /\ UNCHANGED <<extractor, jobs, i, job_failures, outcome, calls, file_obj, vector_store, vs_file, check_error,
                   vector_store_id, written, live_vs, delete_failed>>

\* lines 341-345, and the return of cli(): the interpreter exits 0
Summary ==
    /\ pc = "for"
    /\ i > Len(jobs)
    /\ pc' = "done"
    /\ exit_status' = ExitStatusOf(job_failures)
    /\ UNCHANGED <<extractor, jobs, i, job_failures, outcome, exc, calls, file_obj, vector_store, vs_file, check_error,
                   vector_store_id, written, live_vs, delete_failed>>

\* line 324 returned: the loop moves on
CliJobOk ==
    /\ pc = "returned"
    /\ outcome' = Append(outcome, "ok")
    /\ i' = i + 1
    /\ pc' = "for"
    /\ calls' = <<>>
    /\ file_obj' = None
    /\ vector_store' = None
    /\ vs_file' = NoVsFile
    /\ check_error' = "none"
    /\ vector_store_id' = None
    /\ UNCHANGED <<extractor, jobs, job_failures, exc, written, live_vs, delete_failed, exit_status>>

\* lines 325-336: process_job raised
CliExcept ==
    /\ pc = "raised"
    /\ IF ExceptClause(exc.cls) = "uncaught"
       THEN /\ pc' = "crashed"
            /\ exit_status' = 1
            /\ UNCHANGED <<outcome, job_failures, i, exc, calls, file_obj, vector_store, vs_file, check_error,
                           vector_store_id>>
       ELSE /\ outcome' = Append(outcome, ExceptClause(exc.cls))
            /\ job_failures' = job_failures + 1
            /\ i' = i + 1
            /\ pc' = "for"
            /\ exc' = NoExc
            /\ calls' = <<>>
            /\ file_obj' = None
            /\ vector_store' = None
            /\ vs_file' = NoVsFile
            /\ check_error' = "none"
            /\ vector_store_id' = None
            /\ UNCHANGED exit_status
    /\ UNCHANGED <<extractor, jobs, written, live_vs, delete_failed>>

(* --------------------------- process_job ------------------------------ *)
Raise(where, c, m) ==
    /\ pc' = where
    /\ exc' = Exc(c, m)

\* lines 219-237 and 250-251: the dispatch on the job type
ProcessJob ==
    /\ pc = "process_job"
    /\ IF job.type = Absent THEN Raise("raised", "KeyError", <<"type">>)
       ELSE IF job.type = NonText THEN Raise("raised", "AttributeError", <<"lower">>)
       ELSE IF Lower(job.type) = "web" THEN pc' = "run_web_search" /\ UNCHANGED exc
       ELSE IF Lower(job.type) = "file"
            THEN IF job.file_path = Absent
                 THEN Raise("finally", "ValueError", <<"Job type 'file' requires 'file_path'">>)
                 ELSE IF ~PathExists(job.file_path)
                 THEN Raise("finally", "FileNotFoundError", <<"File not found at path: ", job.file_path>>)
                 ELSE pc' = "upload" /\ UNCHANGED exc
       ELSE Raise("raised", "ValueError", <<"Unknown job type: ", Lower(job.type)>>)
    /\ UNCHANGED <<extractor, jobs, i, job_failures, outcome, calls, file_obj, vector_store, vs_file, check_error,
                   vector_store_id, written, live_vs, delete_failed, exit_status>>

\* line 225 and run_web_search, lines 83-99
RunWebSearch ==
    /\ pc = "run_web_search"
    /\ IF job.query = Absent
       THEN Raise("raised", "KeyError", <<"query">>) /\ UNCHANGED calls
       ELSE \E r \in CallResults :
              /\ calls' = Append(calls, Call("query_web", IF r = "ok" THEN "ok" ELSE "raise", None, None, 0))
              /\ IF r = "ok" THEN pc' = "write" /\ UNCHANGED exc
                 ELSE Raise("raised", r, <<"responses.create">>)
    /\ UNCHANGED <<extractor, jobs, i, job_failures, outcome, file_obj, vector_store, vs_file, check_error,
                   vector_store_id, written, live_vs, delete_failed, exit_status>>

\* line 243 and run_file_search, lines 191-213
RunFileSearch ==
    /\ pc = "run_file_search"
    /\ IF job.query = Absent
       THEN Raise("finally", "KeyError", <<"query">>) /\ UNCHANGED calls
       ELSE \E r \in CallResults :
              /\ calls' = Append(calls, Call("query_file", IF r = "ok" THEN "ok" ELSE "raise", vector_store_id, None, 0))
              /\ IF r = "ok" THEN pc' = "finally" /\ UNCHANGED exc
                 ELSE Raise("finally", r, <<"responses.create">>)
    /\ UNCHANGED <<extractor, jobs, i, job_failures, outcome, file_obj, vector_store, vs_file, check_error,
                   vector_store_id, written, live_vs, delete_failed, exit_status>>

\* lines 245-248 and cleanup_vector_store, lines 181-188
Finally ==
    /\ pc = "finally"
    /\ IF FinallyCleans(vector_store_id)
       THEN \E dv \in DeleteResults :
              /\ calls' = Append(calls, Call("delete_vs", dv, vector_store_id, None, 0))
              /\ live_vs' = AfterDelete(live_vs, vector_store_id, dv)
              /\ delete_failed' = FailedDeletes(delete_failed, vector_store_id, dv)
              /\ exc' = AfterCleanup(exc, dv)
       ELSE UNCHANGED <<calls, live_vs, delete_failed, exc>>
    /\ pc' = AfterFinally(exc')
    /\ UNCHANGED <<extractor, jobs, i, job_failures, outcome, file_obj, vector_store, vs_file, check_error,
                   vector_store_id, written, exit_status>>

\* lines 253-267: write the result record, then the polite pause
WriteOutput ==
    /\ pc = "write"
    /\ IF job.out = Absent
       THEN Raise("raised", "KeyError", <<"out">>) /\ UNCHANGED <<calls, written>>
       ELSE /\ written' = [written EXCEPT ![job.out] = @ + 1]
            /\ calls' = calls \o << Call("write", "ok", None, None, 0),
                                    Call("smart_sleep", "job", None, None, DEFAULT_SLEEP) >>
            /\ pc' = "returned"
            /\ UNCHANGED exc
    /\ UNCHANGED <<extractor, jobs, i, job_failures, outcome, file_obj, vector_store, vs_file, check_error,
                   vector_store_id, live_vs, delete_failed, exit_status>>

(* ------------------ setup_file_search_vector_store -------------------- *)
\* lines 108-116: upload the file
Upload ==
    /\ pc = "upload"
    /\ \E r \in CallResults :
         /\ calls' = Append(calls, Call("upload", IF r = "ok" THEN "ok" ELSE "raise", None,
                                        IF r = "ok" THEN i ELSE None, 0))
         /\ IF r = "ok"
            THEN /\ file_obj' = i
                 /\ pc' = "create_vs"
                 /\ UNCHANGED exc
            ELSE /\ Raise("finally", r, <<"files.create">>)
                 /\ UNCHANGED file_obj
    /\ UNCHANGED <<extractor, jobs, i, job_failures, outcome, vector_store, vs_file, check_error,
                   vector_store_id, written, live_vs, delete_failed, exit_status>>

\* lines 118-129: create the temporary vector store
CreateVectorStore ==
    /\ pc = "create_vs"
    /\ \E r \in CallResults :
         IF r = "ok"
         THEN /\ calls' = Append(calls, Call("create_vs", "ok", i, None, 0))
              /\ vector_store' = i
              /\ live_vs' = live_vs \cup {i}
              /\ UNCHANGED delete_failed
              /\ pc' = "add_file"
              /\ UNCHANGED exc
         ELSE \E df \in DeleteResults :
              /\ calls' = Append(calls, Call("create_vs", "raise", None, None, 0))
                            \o DeleteCalls(CreateFailureDeletes, "ok", df)
              /\ Raise("finally", r, <<"vector_stores.create">>)
              /\ UNCHANGED <<vector_store, live_vs, delete_failed>>
    /\ UNCHANGED <<extractor, jobs, i, job_failures, outcome, file_obj, vs_file, check_error,
                   vector_store_id, written, exit_status>>

\* lines 131-145: add the file to the vector store
AddFile ==
    /\ pc = "add_file"
    /\ \E r \in CallResults :
         IF r = "ok"
         THEN /\ calls' = Append(calls, Call("add_file", "ok", vector_store, file_obj, 0))
              /\ vs_file' = [status |-> "in_progress", last_error |-> NoDetail]
              /\ pc' = "poll"
              /\ UNCHANGED <<exc, live_vs, delete_failed>>
         ELSE \E dv \in DeleteResults, df \in DeleteResults :
              /\ calls' = Append(calls, Call("add_file", "raise", vector_store, file_obj, 0))
                            \o DeleteCalls(AddFailureDeletes, dv, df)
              /\ live_vs' = IF Has(AddFailureDeletes, "delete_vs")
                            THEN AfterDelete(live_vs, vector_store, dv) ELSE live_vs
              /\ delete_failed' = IF Has(AddFailureDeletes, "delete_vs")
                                  THEN FailedDeletes(delete_failed, vector_store, dv)
                                  ELSE delete_failed
              /\ Raise("finally", r, <<"vector_stores.files.create">>)
              /\ UNCHANGED vs_file
    /\ UNCHANGED <<extractor, jobs, i, job_failures, outcome, file_obj, vector_store, check_error,
                   vector_store_id, written, exit_status>>

\* the exception the body of the polling try ends with, if any: the one the
\* status check raised, or the RuntimeError of line 161
PollRaised(a) ==
    IF a.raises # "none" THEN Exc(a.raises, <<"vector_stores.files.retrieve">>)
    ELSE IF PollDecision(a.status) = "raise" THEN Exc("RuntimeError", FailureText(a.last_error))
    ELSE NoExc

\* lines 147-179: one iteration of the polling loop, and on `completed` the
\* return of the id to process_job (line 240)
Poll ==
    /\ pc = "poll"
    /\ \E a \in PollAnswers :
         LET check == Call("retrieve", IF a.raises # "none" THEN "raise" ELSE a.status,
                           vector_store, file_obj, 0)
             e == PollRaised(a)
             goesOn == IF e = NoExc THEN PollDecision(a.status) = "sleep"
                       ELSE PollExcept(e.cls) = "retry"
         IN  /\ goesOn => CountOp(calls, "retrieve") + 1 < MaxPolls
             /\ vs_file' = IF a.raises # "none" THEN vs_file
                           ELSE [status |-> a.status, last_error |-> a.last_error]
             /\ check_error' = a.raises
             /\ IF e = NoExc
                THEN IF PollDecision(a.status) = "break"
                     THEN /\ calls' = Append(calls, check)
                          /\ vector_store_id' = vector_store
                          /\ pc' = "run_file_search"
                          /\ UNCHANGED <<exc, live_vs, delete_failed>>
                     ELSE /\ calls' = calls \o << check, Call("smart_sleep", "poll", None, None, PollSleepSecs) >>
                          /\ pc' = "poll"
                          /\ UNCHANGED <<exc, vector_store_id, live_vs, delete_failed>>
                ELSE IF PollExcept(e.cls) = "retry"
                     THEN /\ calls' = calls \o << check, Call("smart_sleep", "backoff", None, None, BackoffSecs) >>
                          /\ pc' = "poll"
                          /\ UNCHANGED <<exc, vector_store_id, live_vs, delete_failed>>
                     ELSE \E dv \in DeleteResults, df \in DeleteResults :
                          /\ calls' = Append(calls, check) \o DeleteCalls(PollFailureDeletes, dv, df)
                          /\ live_vs' = IF Has(PollFailureDeletes, "delete_vs")
                                        THEN AfterDelete(live_vs, vector_store, dv) ELSE live_vs
                          /\ delete_failed' = IF Has(PollFailureDeletes, "delete_vs")
                                              THEN FailedDeletes(delete_failed, vector_store, dv)
                                              ELSE delete_failed
                          /\ Raise("finally", e.cls, e.msg)
                          /\ UNCHANGED vector_store_id
    /\ UNCHANGED <<extractor, jobs, i, job_failures, outcome, file_obj, vector_store,
                   written, exit_status>>

(* ------------------------------ system -------------------------------- *)
Next ==
    \/ JobHeader
    \/ ProcessJob
    \/ RunWebSearch
    \/ Upload
    \/ CreateVectorStore
    \/ AddFile
    \/ Poll
    \/ RunFileSearch
    \/ Finally
    \/ WriteOutput
    \/ CliJobOk
    \/ CliExcept
    \/ Summary

Spec == Init /\ [][Next]_vars

(* ====================================================================== *)
(*          02_extract_clean.py: main, the loop over the manifest         *)
(* ====================================================================== *)
\* main's body is modelled as it is written, lines 93-155.  The file as it
\* stands does not load: lines 62-63 and 67-68 (inject_metadata) hold string
\* literals with a line break inside them, which is a SyntaxError.

(* ------------------------------ bounds -------------------------------- *)
\* longest manifest
MaxRows == 3

(* --------------------------- manifest rows ---------------------------- *)
\* a cell pandas read as missing
NaN == "<NaN>"
Row(f, s, e) == [file_name |-> f, season |-> s, episode |-> e]
\* cells are given as the text the manifest holds; "special" is a season
\* that is no number
RowPool ==
    { Row("a.pdf", "1", "1"), Row("b.pdf", "1", "1"), Row("gone.pdf", "1", "1"),
      Row("a.pdf", NaN, NaN), Row("gone.pdf", NaN, NaN),
      Row(NaN, "1", "1"), Row("a.pdf", "special", "1") }
Manifests == UNION { [1..n -> RowPool] : n \in 0..MaxRows }
\* the PDF files present in args.pdf_dir
PdfDir == {"a.pdf", "b.pdf"}

\* int(v) raises ValueError on text that is no number
IntRaises(v) == v \notin {"1", "2"}
\* f"{int(v):02d}"
TwoDigits(v) == CASE v = "1" -> "01" [] v = "2" -> "02"
\* pathlib.Path(f).stem
Stem(f) == CASE f = "a.pdf" -> "a" [] f = "b.pdf" -> "b" [] f = "gone.pdf" -> "gone"

\* line 107: both season and episode are given
HasEpisode(row) == row.season # NaN /\ row.episode # NaN
\* line 108 raises
NameRaises(row) == HasEpisode(row) /\ (IntRaises(row.season) \/ IntRaises(row.episode))
\* lines 105-111: the output file name of a row
OutputName(row) ==
    IF HasEpisode(row)
    THEN <<"S", TwoDigits(row.season), "E", TwoDigits(row.episode), ".txt">>
    ELSE <<Stem(row.file_name), ".txt">>
\* the output files a run may find in place when it starts
OldOutputs == {OutputName(Row("a.pdf", "1", "1"))}

\* what the loop body did with a row: whether the output file was there
\* when the row was reached, whether extraction and the write were called,
\* and the counter the row incremented ("none" if it incremented none)
RowLog(existed, extracted, wrote, counted) ==
    [existed |-> existed, extracted |-> extracted, wrote |-> wrote, counted |-> counted]

harvester == <<jobs, i, pc, job_failures, outcome, exc, calls, file_obj, vector_store, vs_file,
               check_error, vector_store_id, written, live_vs, delete_failed, exit_status>>

\* the harvester is not part of a run of the extraction script
HarvesterIdle ==
    /\ jobs = <<>>
    /\ i = 1
    /\ pc = "idle"
    /\ job_failures = 0
    /\ outcome = <<>>
    /\ exc = NoExc
    /\ calls = <<>>
    /\ file_obj = None
    /\ vector_store = None
    /\ vs_file = NoVsFile
    /\ check_error = "none"
    /\ vector_store_id = None
    /\ written = [p \in OutPaths |-> 0]
    /\ live_vs = {}
    /\ delete_failed = {}
    /\ exit_status = -1

\* lines 79-95: the state when the loop is entered
ExtractInit ==
    /\ manifest_df \in Manifests
    /\ skip_existing \in BOOLEAN
    /\ output_files \in SUBSET OldOutputs
    /\ index = 1
    /\ main_pc = "for"
    /\ processed_count = 0
    /\ skipped_count = 0
    /\ error_count = 0
    /\ rows_log = <<>>
    /\ HarvesterIdle

row == manifest_df[index]

\* lines 97-126: the next row, up to the call of extract_text_from_pdf
RowHeader ==
    /\ main_pc = "for"
    /\ index <= Len(manifest_df)
    /\ IF row.file_name = NaN
       THEN /\ rows_log' = Append(rows_log, RowLog(FALSE, FALSE, FALSE, "none"))
            /\ index' = index + 1
            /\ UNCHANGED <<main_pc, skipped_count, error_count>>
       ELSE IF NameRaises(row)
       THEN /\ rows_log' = Append(rows_log, RowLog(FALSE, FALSE, FALSE, "none"))
            /\ main_pc' = "crashed"
            /\ UNCHANGED <<index, skipped_count, error_count>>
       ELSE LET existed == OutputName(row) \in output_files
            IN  IF skip_existing /\ existed
                THEN /\ rows_log' = Append(rows_log, RowLog(existed, FALSE, FALSE, "skipped"))
                     /\ skipped_count' = skipped_count + 1
                     /\ index' = index + 1
                     /\ UNCHANGED <<main_pc, error_count>>
                ELSE IF row.file_name \notin PdfDir
                THEN /\ rows_log' = Append(rows_log, RowLog(existed, FALSE, FALSE, "error"))
                     /\ error_count' = error_count + 1
                     /\ index' = index + 1
                     /\ UNCHANGED <<main_pc, skipped_count>>
                ELSE /\ rows_log' = Append(rows_log, RowLog(existed, FALSE, FALSE, "none"))
                     /\ main_pc' = "extract"
                     /\ UNCHANGED <<index, skipped_count, error_count>>
    /\ UNCHANGED <<harvester, manifest_df, skip_existing, processed_count, output_files>>

\* lines 128-133: extract_text_from_pdf returns the text, or None after it
\* caught an error
ExtractText ==
    /\ main_pc = "extract"
    /\ \E raw_text \in {"text", "None"} :
         IF raw_text = "None"
         THEN /\ rows_log' = [rows_log EXCEPT ![index] = RowLog(@.existed, TRUE, FALSE, "error")]
              /\ error_count' = error_count + 1
              /\ index' = index + 1
              /\ main_pc' = "for"
         ELSE /\ rows_log' = [rows_log EXCEPT ![index] = RowLog(@.existed, TRUE, FALSE, "none")]
              /\ main_pc' = "write"
              /\ UNCHANGED <<index, error_count>>
    /\ UNCHANGED <<harvester, manifest_df, skip_existing, processed_count, skipped_count,
                   output_files>>

\* lines 144-150: write the output file; a write that raised may have left
\* the file in place
WriteText ==
    /\ main_pc = "write"
    /\ \E res \in {"ok", "raise"}, left \in BOOLEAN :
         /\ res = "ok" => left
         /\ output_files' = IF left THEN output_files \cup {OutputName(row)} ELSE output_files
         /\ rows_log' = [rows_log EXCEPT ![index] =
                            RowLog(@.existed, TRUE, TRUE, IF res = "ok" THEN "processed" ELSE "error")]
         /\ processed_count' = processed_count + (IF res = "ok" THEN 1 ELSE 0)
         /\ error_count' = error_count + (IF res = "ok" THEN 0 ELSE 1)
    /\ index' = index + 1
    /\ main_pc' = "for"
    /\ UNCHANGED <<harvester, manifest_df, skip_existing, skipped_count>>

\* lines 152-155: the manifest is exhausted, the counts are printed
ExtractionComplete ==
    /\ main_pc = "for"
    /\ index > Len(manifest_df)
    /\ main_pc' = "done"
    /\ UNCHANGED <<harvester, manifest_df, skip_existing, index, processed_count, skipped_count,
                   error_count, output_files, rows_log>>

ExtractNext ==
    \/ RowHeader
    \/ ExtractText
    \/ WriteText
    \/ ExtractionComplete

ExtractSpec == ExtractInit /\ [][ExtractNext]_vars

(* ====================================================================== *)
(*                              properties                                *)
(* ====================================================================== *)
IsFileJob(j) == j.rec /\ j.type \notin {Absent, NonText} /\ Lower(j.type) = "file"

\* process_job has handed control back to the runner, by return or by raise
AtJobBoundary == pc \in {"returned", "raised"}

Entries(op) == {k \in DOMAIN calls : calls[k].op = op}
Issued(op) == Entries(op) # {}
Succeeded(op) == \E k \in Entries(op) : calls[k].res = "ok"
\* deletions attempted on the store / the file this job created
StoreDeletes == {k \in Entries("delete_vs") : calls[k].vs = vector_store}
FileDeletes == {k \in Entries("delete_file") : calls[k].file = file_obj}

\* C1: for every `file` job, by the time process_job returns or raises,
\* deletion has been attempted for both the vector store and the uploaded
\* file the job created, on success and on failure alike.
C1_BothTornDownAtBoundary ==
    (AtJobBoundary /\ IsFileJob(job)) =>
        /\ Succeeded("create_vs") => StoreDeletes # {}
        /\ Succeeded("upload") => FileDeletes # {}

\* C2: for every `file` job whose store was created and whose control is
\* back at the runner, deletion of that store was attempted exactly once,
\* on every exit path.
C2_StoreDeletedExactlyOnce ==
    (AtJobBoundary /\ IsFileJob(job) /\ Succeeded("create_vs")) =>
        /\ Cardinality(StoreDeletes) = 1
        /\ Cardinality(Entries("delete_vs")) = 1

\* the exit paths C2 names
C2_PathAddFileFailed == \E k \in Entries("add_file") : calls[k].res = "raise"
C2_PathPollFailed == \E k \in Entries("retrieve") : calls[k].res = "failed"
C2_PathPollRaised ==
    /\ Entries("retrieve") # {}
    /\ exc.cls = "TimeoutError"
    /\ ~Issued("query_file")
    /\ \E k \in Entries("retrieve") : calls[k].res = "raise" /\ \A m \in Entries("retrieve") : m <= k
C2_PathQueryFailed == \E k \in Entries("query_file") : calls[k].res = "raise"
C2_PathQueryOk == \E k \in Entries("query_file") : calls[k].res = "ok"

\* C2 witness: a job that reached the boundary after its polling ended in
\* `failed`, the store deleted once by the lifecycle manager and not again
\* by process_job's finally block
C2_Witness ==
    /\ AtJobBoundary
    /\ IsFileJob(job)
    /\ C2_PathPollFailed
    /\ Cardinality(StoreDeletes) = 1

Failed == {k \in DOMAIN outcome : outcome[k] # "ok"}
RunEnded == exit_status # -1

\* the example of C3: three jobs, the second lacks `query`, the first and
\* the third are well-formed and their remote calls succeed
C3_ThreeJobExample ==
    (/\ pc = "done"
     /\ Len(jobs) = 3
     /\ jobs[2].rec /\ jobs[2].query = Absent
     /\ jobs[1] \in {WebJob, FileJob} /\ jobs[3] \in {WebJob, FileJob}
     /\ outcome[1] = "ok" /\ outcome[3] = "ok")
    => (outcome[2] # "ok" /\ job_failures = 1)

\* C3: for every job list the runner attempts every job in list order, a
\* job whose dispatch raises never keeps the following jobs from being
\* attempted, and at the end of the loop the failure counter equals the
\* number of jobs whose dispatch raised (three jobs, the second lacking
\* `query`: jobs 1 and 3 succeed and the count is 1).
C3_EveryJobAttempted ==
    /\ Len(outcome) = i - 1
    /\ job_failures = Cardinality(Failed)
    /\ pc = "raised" => i <= Len(jobs)
    /\ RunEnded => i >= Len(jobs)
    /\ pc = "done" => Len(outcome) = Len(jobs)
    /\ C3_ThreeJobExample

\* what of C3 the code does keep: on job lists whose entries are all
\* mappings with a textual (or missing) `type`, every job is attempted and
\* the counter is the number of dispatches that raised
C3_OnPrintableHeaders ==
    (\A k \in DOMAIN jobs : ~HeaderRaises(jobs[k])) => C3_EveryJobAttempted

\* the latest status check in the job's log (0: none yet)
RECURSIVE LastOpUpTo(_, _)
LastOpUpTo(op, n) ==
    IF n = 0 THEN 0
    ELSE IF calls[n].op = op THEN n
    ELSE LastOpUpTo(op, n - 1)
\* the index of the latest status check in the log, 0 if there is none
LastCheck == LastOpUpTo("retrieve", Len(calls))
NonTerminal(res) == res \notin {"completed", "failed", "raise"}
SetupReturned == vector_store_id # None

\* C4: the polling loop returns only after a status check answered
\* `completed`, raises the processing-failure error only after one answered
\* `failed`, and after any other status neither returns nor raises but
\* sleeps and checks again.
C4_PollingEndsOnlyOnTerminal ==
    /\ SetupReturned =>
         /\ LastCheck # 0
         /\ calls[LastCheck].res = "completed"
         /\ vector_store_id = vector_store
    /\ (exc.cls = "RuntimeError") => (LastCheck # 0 /\ calls[LastCheck].res = "failed")
    /\ \A k \in Entries("retrieve") :
         NonTerminal(calls[k].res) =>
            /\ k < Len(calls)
            /\ calls[k + 1].op = "smart_sleep"
            /\ IF k + 1 = Len(calls)
               THEN pc = "poll" /\ exc = NoExc /\ ~SetupReturned
               ELSE calls[k + 2].op = "retrieve"

\* C4 witness: setup returned after an unrecognised status and then
\* `completed`
C4_Witness ==
    /\ SetupReturned
    /\ \E k \in Entries("retrieve") : calls[k].res = "cancelled"
    /\ calls[LastCheck].res = "completed"

\* C5: when the status checks answer n non-terminal statuses and then
\* `completed`, none raising, setup has issued n+1 checks, slept the poll
\* interval n times, deleted nothing, and returns the id of the store it
\* created.
C5_ChecksAndSleeps ==
    (pc = "run_file_search" /\ \A k \in Entries("retrieve") : calls[k].res # "raise") =>
        LET n == Cardinality({k \in Entries("retrieve") : NonTerminal(calls[k].res)})
            sleeps == Entries("smart_sleep")
        IN  /\ Cardinality(Entries("retrieve")) = n + 1
            /\ Cardinality(sleeps) = n
            /\ \A k \in sleeps : calls[k].secs = POLL_INTERVAL_S
            /\ Entries("delete_vs") = {} /\ Entries("delete_file") = {}
            /\ \E k \in Entries("create_vs") : calls[k].res = "ok" /\ calls[k].vs = vector_store_id
            /\ vector_store_id \in live_vs

\* C5 witness: [non-terminal, non-terminal, completed], three checks
C5_Witness ==
    /\ pc = "run_file_search"
    /\ Cardinality(Entries("retrieve")) = 3
    /\ Cardinality({k \in Entries("retrieve") : NonTerminal(calls[k].res)}) = 2
    /\ Cardinality(Entries("smart_sleep")) = 2

Contains(msg, text) == \E k \in DOMAIN msg : msg[k] = text

\* C6: when a status check answers `failed`, the error setup raises
\* carries the remote's error message ("Unknown error" when there is
\* none), and that same error is what reaches the job runner.
C6_FailureCarriesRemoteMessage ==
    (vs_file.status = "failed" /\ pc \in {"finally", "raised"}) =>
        /\ exc.cls = "RuntimeError"
        /\ Contains(exc.msg, IF vs_file.last_error = NoDetail THEN "Unknown error"
                             ELSE vs_file.last_error)

\* C6 witness: the error with the text "bad format" is at the job boundary
C6_Witness ==
    /\ pc = "raised"
    /\ vs_file = [status |-> "failed", last_error |-> "bad format"]
    /\ Contains(exc.msg, "bad format")

GoneJob(j) == IsFileJob(j) /\ j.file_path # Absent /\ j.file_path \notin ExistingPaths

\* C7: a `file` job whose file_path does not exist issues no remote call
\* and writes no output file, and the runner records it under the
\* input-file-not-found clause and counts one failure.
C7_MissingInputFile ==
    /\ (i <= Len(jobs) /\ GoneJob(job) /\ pc # "for") =>
          /\ calls = <<>>
          /\ pc \in {"process_job", "finally", "raised"}
          /\ pc # "process_job" => exc.cls = "FileNotFoundError"
    /\ \A k \in DOMAIN outcome : GoneJob(jobs[k]) => outcome[k] = "input_file_not_found"
    /\ job_failures = Cardinality(Failed)
    /\ (pc = "done" /\ \A k \in DOMAIN jobs : GoneJob(jobs[k])) =>
          (written = [p \in OutPaths |-> 0] /\ job_failures = Len(jobs) /\ live_vs = {})

\* C7 witness: the runner has recorded such a job
C7_Witness ==
    /\ pc = "for"
    /\ i = 2
    /\ GoneJob(jobs[1])
    /\ outcome = <<"input_file_not_found">>
    /\ job_failures = 1

\* C8: a run that ends its job loop with a non-zero failure counter exits
\* with another status than a run in which every job succeeded.
C8_ExitStatusReflectsFailures ==
    (pc = "done" /\ job_failures # 0) => exit_status # ExitStatusOf(0)

\* C9: no entry of the job list can abort the run: whatever the entry is,
\* the error it causes is caught at the job boundary and counted once, and
\* the runner goes on to the next entry and reaches the summary.
C9_NoEntryAbortsRun ==
    /\ pc # "crashed"
    /\ job_failures = Cardinality(Failed)
    /\ RunEnded => (pc = "done" /\ Len(outcome) = Len(jobs))

\* the errors an unknown type or a missing field raises
ConfigFault ==
    \/ exc.cls = "KeyError" /\ exc.msg \in {<<"type">>, <<"query">>, <<"out">>}
    \/ exc.cls = "ValueError"

\* C10: a job with an unknown `type`, or one that lacks a required field,
\* fails under the configuration-error clause, only that job fails, and
\* the run goes on with the next job.
C10_ConfigErrorsClassified ==
    [][(pc = "raised" /\ ConfigFault) =>
          /\ outcome' = Append(outcome, "configuration")
          /\ job_failures' = job_failures + 1
          /\ i' = i + 1
          /\ pc' = "for"]_vars

(* ------------------------- polling and errors ------------------------- *)
\* the API errors a later attempt can cure (HTTP 429) and those it cannot
\* (HTTP 400); TimeoutError is no APIError
TransientAPIErrors == {"RateLimitError"}
NonTransientAPIErrors == {"BadRequestError"}

\* C11: a status check that raised a non-transient API error ends the
\* polling loop: deletion of the store and of the file has been attempted,
\* that error is the exception in flight and the job is on its way to being
\* counted as failed; it is not retried.
C11_NonTransientErrorEndsPolling ==
    (check_error \in NonTransientAPIErrors) =>
        /\ pc \in {"finally", "raised"}
        /\ exc.cls = check_error
        /\ StoreDeletes # {}
        /\ FileDeletes # {}

\* C13: a status check that raised a transient API error aborts nothing and
\* deletes nothing: the loop has slept twice the poll interval and is about
\* to check again; every status check of the job names the store and the
\* file the job created, and every backoff sleep but the latest was followed
\* by a status check.
C13_TransientErrorRetried ==
    /\ (check_error \in TransientAPIErrors) =>
          /\ pc = "poll" /\ exc = NoExc /\ ~SetupReturned
          /\ Len(calls) >= 2
          /\ calls[Len(calls) - 1] = Call("retrieve", "raise", vector_store, file_obj, 0)
          /\ calls[Len(calls)] = Call("smart_sleep", "backoff", None, None, 2 * POLL_INTERVAL_S)
          /\ Entries("delete_vs") = {} /\ Entries("delete_file") = {}
          /\ vector_store \in live_vs
    /\ \A k \in Entries("retrieve") :
          /\ calls[k].vs = vector_store /\ calls[k].file = file_obj
          /\ vector_store # None /\ file_obj # None
    /\ \A k \in Entries("smart_sleep") :
          (calls[k].res = "backoff" /\ k < Len(calls)) => calls[k + 1].op = "retrieve"

\* C13 witness: a second status check was issued after a retry, and it too
\* raised a rate-limit error and is being retried
C13_Witness ==
    /\ check_error = "RateLimitError"
    /\ Cardinality(Entries("retrieve")) = 2
    /\ Cardinality({k \in Entries("smart_sleep") : calls[k].res = "backoff"}) = 2

(* ----------------------------- output files --------------------------- *)
\* C12: within one run no output file is overwritten: every output path is
\* written at most once, also when two jobs of the list name the same `out`.
C12_NoOutputOverwritten ==
    \A p \in OutPaths : written[p] <= 1

(* --------------------------- failures in setup ------------------------ *)
Raised(op) == \E k \in Entries(op) : calls[k].res = "raise"
SetupRaised == pc \in {"finally", "raised"} /\ exc # NoExc /\ ~SetupReturned

\* C14: when setup raised after the create call failed, one deletion of the
\* uploaded file and none of a store was attempted; after the add call
\* failed, one deletion of the store and then one of the file, the file's
\* also when the store's raised; after the upload failed, none at all.
C14_SetupFailureDeletes ==
    SetupRaised =>
        /\ Raised("upload") => (Entries("delete_vs") = {} /\ Entries("delete_file") = {})
        /\ Raised("create_vs") =>
              /\ Entries("delete_vs") = {}
              /\ Cardinality(FileDeletes) = 1 /\ Entries("delete_file") = FileDeletes
        /\ Raised("add_file") =>
              /\ Cardinality(StoreDeletes) = 1 /\ Entries("delete_vs") = StoreDeletes
              /\ Cardinality(FileDeletes) = 1 /\ Entries("delete_file") = FileDeletes
              /\ \A s \in StoreDeletes, f \in FileDeletes : s < f

\* C14 witness: the add call failed, the store's deletion raised and the
\* file's deletion was attempted after it
C14_Witness ==
    /\ SetupRaised
    /\ Raised("add_file")
    /\ \E s \in StoreDeletes : calls[s].res = "raise"
    /\ FileDeletes # {}

(* ------------------------ cleanup and the outcome --------------------- *)
\* the loop is at a `file` job
InFileJob == i \in DOMAIN jobs /\ IsFileJob(job)

\* the remote call each logged operation makes, as the exceptions name it
Site(op) ==
    CASE op = "upload" -> "files.create"
      [] op = "create_vs" -> "vector_stores.create"
      [] op = "add_file" -> "vector_stores.files.create"
      [] op = "query_file" -> "responses.create"
      [] op = "delete_vs" -> "vector_stores.delete"
      [] op = "delete_file" -> "files.delete"
      [] OTHER -> "vector_stores.files.retrieve"

\* C15: a failing cleanup never changes a file job's outcome. On a failure
\* path the exception that reaches the runner is the one of the call that
\* failed, never one of a delete call; on the success path a store deletion
\* that raised leaves the job without an exception, and the job returns
\* with its result record written.
C15_CleanupNeverChangesOutcome ==
    InFileJob =>
        /\ exc.msg \notin {<<Site("delete_vs")>>, <<Site("delete_file")>>}
        /\ (pc \in {"finally", "raised"}) =>
              /\ \A op \in {"upload", "create_vs", "add_file", "query_file"} :
                    Raised(op) => exc.msg = <<Site(op)>>
              /\ SetupRaised =>
                    LET last == LastCheck
                    IN  /\ (last # 0 /\ calls[last].res = "raise") =>
                              (exc.cls = check_error /\ exc.msg = <<Site("retrieve")>>)
                        /\ (last # 0 /\ calls[last].res = "failed") =>
                              exc.cls = "RuntimeError"
        /\ (Succeeded("query_file") /\ Issued("delete_vs") /\ job.out # Absent) =>
              /\ exc = NoExc
              /\ pc \in {"write", "returned"}
              /\ (pc = "returned") => Cardinality(Entries("write")) = 1

\* C15 witness: the query succeeded, the store's deletion raised, and the
\* job returned with its result written
C15_Witness ==
    /\ pc = "returned"
    /\ Succeeded("query_file")
    /\ \E k \in Entries("delete_vs") : calls[k].res = "raise"
    /\ Issued("write")

(* ----------------------- order of the remote calls -------------------- *)
\* the place of each remote call of a file job in the order upload, create,
\* add, status checks, query, delete store (a handler's file deletion
\* comes after its store deletion)
Rank(op) ==
    CASE op = "upload" -> 1
      [] op = "create_vs" -> 2
      [] op = "add_file" -> 3
      [] op = "retrieve" -> 4
      [] op = "query_file" -> 5
      [] op = "delete_vs" -> 6
      [] op = "delete_file" -> 7
      [] OTHER -> 0
IsRemote(c) == c.op \notin {"smart_sleep", "write", "query_web"}
\* the remote calls of the log, in the order they were made
Remote == SelectSeq(calls, IsRemote)

\* C16: in every file job the remote calls occur in the order upload,
\* create, add, status checks, scoped query, delete store, only the status
\* check repeating; the query is issued only after a status check answered
\* `completed` and never after a deletion was attempted; the result record
\* is written only after the store's deletion was attempted; a job that
\* returned made every one of these calls.
C16_RemoteCallOrder ==
    InFileJob =>
        /\ LET made == Remote
           IN  \A k \in 1..(Len(made) - 1) :
                  \/ Rank(made[k].op) < Rank(made[k + 1].op)
                  \/ made[k].op = "retrieve" /\ made[k + 1].op = "retrieve"
        /\ \A q \in Entries("query_file") :
              LET last == LastCheck
              IN  /\ calls[q].vs = vector_store
                  /\ last # 0 /\ last < q /\ calls[last].res = "completed"
                  /\ \A d \in Entries("delete_vs") \cup Entries("delete_file") : q < d
        /\ \A w \in Entries("write") : \E d \in StoreDeletes : d < w
        /\ (pc = "returned") =>
              \A op \in {"upload", "create_vs", "add_file", "retrieve", "query_file", "delete_vs"} :
                  Issued(op)

\* C16 witness: a file job returned after two status checks
C16_Witness ==
    /\ InFileJob
    /\ pc = "returned"
    /\ Cardinality(Entries("retrieve")) = 2

(* ----------------------------- live stores ---------------------------- *)
\* C17: at every point of a run at most one vector store created by the run
\* is live, also after a delete call raised and its error was swallowed.
C17_AtMostOneLiveStore ==
    Cardinality(live_vs) <= 1

\* C17, amended: at every point of a run at most one vector store created
\* by the run is live without a failed delete call behind it, and it is the
\* store of the job in progress; a store whose delete call raised stays
\* live beside it, so the live stores number at most the failed deletions
\* plus one.
C17_AtMostOneLiveStoreInUse ==
    /\ Cardinality(live_vs \ delete_failed) <= 1
    /\ (live_vs \ delete_failed) \subseteq {vector_store}
    /\ Cardinality(live_vs) <= Cardinality(delete_failed) + 1

\* C17 witness: the first job's store outlived a delete call that raised and
\* the second job's store is live beside it
C17_Witness ==
    /\ Cardinality(live_vs) = 2
    /\ Cardinality(delete_failed) = 1
    /\ vector_store \in live_vs \ delete_failed

(* --------------------------- inter-job pacing ------------------------- *)
JobSleeps == {k \in Entries("smart_sleep") : calls[k].res = "job"}

\* C18: when a job that is not the last one hands control back to the loop,
\* by return or by a caught exception, the job's last logged step is the
\* inter-job sleep of the configured length, and it is the job's only one:
\* exactly one such sleep lies between the job's remote calls and those of
\* the job after it.
C18_SleepAfterEveryJob ==
    [][(AtJobBoundary /\ pc' = "for" /\ i < Len(jobs)) =>
          /\ Cardinality(JobSleeps) = 1
          /\ calls[Len(calls)] = Call("smart_sleep", "job", None, None, DEFAULT_SLEEP)]_vars

(* --------------------------- the result record ------------------------ *)
Queries == Entries("query_web") \cup Entries("query_file")
\* the jobs before the current one that returned and named output path p
WroteBefore(p) == {k \in DOMAIN outcome : outcome[k] = "ok" /\ jobs[k].out = p}

\* C19: a job writes its result at most once, and only after its query
\* returned; a job that returned wrote exactly once, to its `out` path, and
\* a job that raised wrote nothing: over the run every output path was
\* written once by each job that returned naming it (the current job's write
\* included) and by no job that failed.
C19_OneWritePerSuccessfulJob ==
    /\ Cardinality(Entries("write")) <= 1
    /\ \A w \in Entries("write") : \E q \in Queries : q < w /\ calls[q].res = "ok"
    /\ (pc = "returned") => (Cardinality(Entries("write")) = 1 /\ job.out \in OutPaths)
    /\ (pc = "raised") => Entries("write") = {}
    /\ \A p \in OutPaths :
          written[p] = Cardinality(WroteBefore(p))
                       + (IF Issued("write") /\ job.out = p THEN 1 ELSE 0)

\* C19 witness: the first job failed on a remote call and wrote nothing, the
\* second returned with its one write
C19_Witness ==
    /\ Len(outcome) = 1 /\ outcome[1] = "api"
    /\ pc = "returned"
    /\ written[job.out] = 1

(* ------------------------------ termination --------------------------- *)
\* C20: a run over a finite job list whose status checks come to a terminal
\* answer stops nowhere but at the final summary, with every job of the list
\* either succeeded or counted as failed. (The status checks of a job are
\* capped at MaxPolls here, so every run of the model is one whose polling
\* ends; the loop itself has no bound.)
C20_RunEndsAtSummary ==
    (~ENABLED Next) =>
        /\ pc = "done"
        /\ Len(outcome) = Len(jobs)
        /\ job_failures = Cardinality({k \in DOMAIN outcome : outcome[k] # "ok"})

(* ------------------- extraction pipeline: skip_existing --------------- *)
\* row k of the manifest has a file name
Named(k) == manifest_df[k].file_name # NaN
MainEnded == main_pc \in {"done", "crashed"}

\* the first half of C21: with --skip_existing, a named row whose output
\* file was in place when the row was reached was neither extracted nor
\* written and was counted as skipped, whether or not its PDF exists
C21_ExistingOutputSkipped ==
    \A k \in DOMAIN rows_log :
        (skip_existing /\ Named(k) /\ rows_log[k].existed) =>
            /\ ~rows_log[k].extracted
            /\ ~rows_log[k].wrote
            /\ rows_log[k].counted = "skipped"

\* the second half of C21: when the run has ended, every named row of the
\* manifest has incremented one counter, and the three counters add up to
\* the number of named rows
C21_EveryNamedRowCounted ==
    MainEnded =>
        /\ \A k \in DOMAIN manifest_df :
              Named(k) => (k \in DOMAIN rows_log /\ rows_log[k].counted # "none")
        /\ processed_count + skipped_count + error_count
              = Cardinality({k \in DOMAIN manifest_df : Named(k)})

\* C21: in a run with --skip_existing a named row whose output file exists
\* when the row is reached (also one written by an earlier row of the run)
\* is neither extracted nor written and is counted as skipped, even when
\* its PDF is missing; and every named row of the manifest increments
\* exactly one of the processed, skipped and error counters.
C21_SkipExistingAndCounters ==
    /\ C21_ExistingOutputSkipped
    /\ C21_EveryNamedRowCounted

\* the second half of C21 on manifests whose season and episode cells, where
\* given, are numbers
C21_CountedOnNumericRows ==
    (\A k \in DOMAIN manifest_df : ~NameRaises(manifest_df[k])) => C21_EveryNamedRowCounted

\* a row whose PDF is missing was skipped because an earlier row of the same
\* run had written its output file
C21_SkippedAfterEarlierRowWrote ==
    /\ skip_existing
    /\ \E k \in DOMAIN rows_log, m \in DOMAIN rows_log :
          /\ m < k
          /\ rows_log[m].counted = "processed"
          /\ rows_log[k].counted = "skipped"
          /\ manifest_df[k].file_name \notin PdfDir
          /\ OutputName(manifest_df[k]) = OutputName(manifest_df[m])
          /\ ~rows_log[m].existed

====
